---- MODULE Spec2Model ----
(***************************************************************************)
(* Model of examples/common/build.rs: the build driver's main, which runs  *)
(* two tonic_build compilations one after the other, each guarded by the   *)
(* `?` operator.  The compiler behind Builder::compile is an external      *)
(* crate; its result is an input of main and is drawn nondeterministically *)
(* from Ok(()) and the error values it may return.                         *)
(***************************************************************************)
EXTENDS Integers, Sequences, FiniteSets

VARIABLES pc, builder, calls, results, ret

vars == <<pc, builder, calls, results, ret>>

\* Number of distinct error values a compile call may return.
MaxErr == 30

Errors == 1..MaxErr

\* Result<(), E>
Ok == [tag |-> "Ok"]
Err(e) == [tag |-> "Err", err |-> e]
IsErr(r) == r.tag = "Err"

\* No value: a moved-out builder, a main that has not returned.
None == [tag |-> "None"]

\* What Builder::compile may hand back to main.
Outcomes == {Ok} \cup {Err(e) : e \in Errors}

\* From<io::Error> for Box<dyn Error>, applied by `?`: the error is boxed.
BoxFrom(e) == [boxed |-> e]

\* Mutant: the result of the compilation is discarded instead of tried.
QuestionMarkIgnoresErr(r) == FALSE

\* The `?` operator returns early from main exactly on Err.
QuestionMarkReturns(r) == IsErr(r)

ExternProto == ".chariott.common.v1"
ExternRust == "::chariott_common::proto::common"
StreamingProto == "../../proto/chariott/streaming/v1/streaming.proto"
DetectionProto == "../applications/proto/examples/detection/v1/detection.proto"
ProtoDir == "../../proto/"
DetectionDir == "../applications/proto/examples/detection/v1/"

\* A compile invocation as the compiler sees it.
Call(b, protos, includes) ==
    [extern_path |-> b.extern_path, protos |-> protos, includes |-> includes]

Init ==
    /\ pc = "configure1"
    /\ builder = None
    /\ calls = <<>>
    /\ results = <<>>
    /\ ret = None

\* line 8: configure()
Configure1 ==
    /\ pc = "configure1"
    /\ builder' = [tag |-> "Builder", extern_path |-> <<>>]
    /\ pc' = "extern_path1"
    /\ UNCHANGED <<calls, results, ret>>

\* line 8: .extern_path(".chariott.common.v1", "::chariott_common::proto::common")
ExternPath1 ==
    /\ pc = "extern_path1"
    /\ builder' = [builder EXCEPT
                     !.extern_path = Append(@, <<ExternProto, ExternRust>>)]
    /\ pc' = "compile1"
    /\ UNCHANGED <<calls, results, ret>>

\* lines 8-11: .compile(&[streaming.proto], &["../../proto/"])
Compile1 ==
    /\ pc = "compile1"
    /\ \E o \in Outcomes :
         /\ calls' = Append(calls, Call(builder, <<StreamingProto>>, <<ProtoDir>>))
         /\ results' = Append(results, o)
    /\ builder' = None
    /\ pc' = "try1"
    /\ UNCHANGED ret

\* line 11: `?` on the first compilation's result
Try1 ==
    /\ pc = "try1"
    /\ IF QuestionMarkReturns(results[Len(results)])
         THEN /\ ret' = Err(BoxFrom(results[Len(results)].err))
              /\ pc' = "returned"
         ELSE /\ ret' = ret
              /\ pc' = "configure2"
    /\ UNCHANGED <<builder, calls, results>>

\* line 13: configure()
Configure2 ==
    /\ pc = "configure2"
    /\ builder' = [tag |-> "Builder", extern_path |-> <<>>]
    /\ pc' = "compile2"
    /\ UNCHANGED <<calls, results, ret>>

\* lines 13-16: .compile(&[detection.proto], &["../../proto/", ".../detection/v1/"])
Compile2 ==
    /\ pc = "compile2"
    /\ \E o \in Outcomes :
         /\ calls' = Append(calls,
                Call(builder, <<DetectionProto>>, <<ProtoDir, DetectionDir>>))
         /\ results' = Append(results, o)
    /\ builder' = None
    /\ pc' = "try2"
    /\ UNCHANGED ret

\* line 16: `?` on the second compilation's result
Try2 ==
    /\ pc = "try2"
    /\ IF QuestionMarkReturns(results[Len(results)])
         THEN /\ ret' = Err(BoxFrom(results[Len(results)].err))
              /\ pc' = "returned"
         ELSE /\ ret' = ret
              /\ pc' = "ok"
    /\ UNCHANGED <<builder, calls, results>>

\* line 18: Ok(())
ReturnOk ==
    /\ pc = "ok"
    /\ ret' = Ok
    /\ pc' = "returned"
    /\ UNCHANGED <<builder, calls, results>>

Next ==
    \/ Configure1
    \/ ExternPath1
    \/ Compile1
    \/ Try1
    \/ Configure2
    \/ Compile2
    \/ Try2
    \/ ReturnOk

Spec == Init /\ [][Next]_vars

TypeOK ==
    /\ pc \in {"configure1", "extern_path1", "compile1", "try1",
               "configure2", "compile2", "try2", "ok", "returned"}
    /\ Len(calls) = Len(results)
    /\ Len(calls) <= 2
    /\ \A i \in 1..Len(results) : results[i] \in Outcomes

\* C10: main runs its two compilations strictly in sequence.  The first call
\* compiles streaming.proto with the external binding, the second compiles
\* detection.proto with none; the second is made only when the first returned
\* Ok; when the first returned Err main returns that error (boxed) and never
\* makes the second call; main returns Ok only when both calls returned Ok.
C10_SequentialCompilations ==
    /\ Len(calls) >= 1 =>
         /\ calls[1].protos = <<StreamingProto>>
         /\ calls[1].extern_path = <<(<<ExternProto, ExternRust>>)>>
    /\ Len(calls) >= 2 =>
         /\ results[1] = Ok
         /\ calls[2].protos = <<DetectionProto>>
         /\ calls[2].extern_path = <<>>
    /\ (Len(results) >= 1 /\ IsErr(results[1])) =>
         /\ Len(calls) = 1
         /\ pc \in {"try1", "returned"}
         /\ pc = "returned" => ret = Err(BoxFrom(results[1].err))
    /\ ret = Ok =>
         /\ Len(results) = 2
         /\ results[1] = Ok
         /\ results[2] = Ok

\* Both compilations ran and succeeded, and main has returned Ok.
C10_Witness ==
    /\ pc = "returned"
    /\ ret = Ok
    /\ Len(calls) = 2

\* The first compilation failed and main has returned its error.
C10_WitnessFirstFails ==
    /\ pc = "returned"
    /\ Len(calls) = 1
    /\ IsErr(results[1])
    /\ IsErr(ret)
====
